---- MODULE Spec2Model ----
(***************************************************************************)
(* Model of nba_shot_charts.py: create_shot_chart and draw_court.          *)
(*                                                                         *)
(* A data frame is a sequence of rows (records keyed by column name).      *)
(* Floating point values that the script derives from the 0/1 flags are    *)
(* kept as exact fractions <<numerator, denominator>> in lowest terms with *)
(* a positive denominator; the missing value NaN is <<0, 0>>.              *)
(***************************************************************************)
EXTENDS Integers, Sequences, FiniteSets, TLC

VARIABLES
    season_df,            \* argument season_df: the league's shots
    target_column,        \* argument target_column
    target_column_name,   \* argument target_column_name
    pc,                   \* position inside create_shot_chart
    league_avg,           \* local league_avg
    target_df,            \* local target_df
    target_avg,           \* local target_avg
    target_shots_hex,     \* local target_shots_hex (array and offsets)
    target_diff_hex,      \* local target_diff_hex (array and offsets)
    my_df,                \* local my_df
    figs,                 \* pyplot's open figures, the last one is current
    shown,                \* what plt.show() displayed on the last call
    first_df,             \* <<my_df>> as the first call logged it, <<>> before
    again                 \* TRUE from the second call on

vars == <<season_df, target_column, target_column_name, pc, league_avg,
          target_df, target_avg, target_shots_hex, target_diff_hex, my_df,
          figs, shown, first_df, again>>

(***************************************************************************)
(* Bounds of the model.                                                    *)
(***************************************************************************)
MaxShots == 3       \* rows of season_df
MaxCells == 5       \* rows of my_df in the ranking specification
MaxFreq == 2        \* largest attempt count in the ranking specification

\* a float is a fraction <<n, d>>; the missing value is 0/0
NaN == <<0, 0>>

Float(i) == <<i, 1>>

(***************************************************************************)
(* Exact fractions.                                                        *)
(***************************************************************************)
Abs(a) == IF a < 0 THEN -a ELSE a

RECURSIVE GCD(_, _)
GCD(a, b) == IF b = 0 THEN a ELSE GCD(b, a % b)

Rat(n, d) ==
    LET g == GCD(Abs(n), Abs(d))
        s == IF d < 0 THEN -1 ELSE 1
    IN  <<(s * n) \div g, (s * d) \div g>>

RatAdd(p, q) == Rat(p[1] * q[2] + q[1] * p[2], p[2] * q[2])
RatSub(p, q) == Rat(p[1] * q[2] - q[1] * p[2], p[2] * q[2])
RatLeq(p, q) == p[1] * q[2] <= q[1] * p[2]
RatLess(p, q) == p[1] * q[2] < q[1] * p[2]

\* a - b on two floats either of which may be missing
FloatSub(a, b) == IF a = NaN \/ b = NaN THEN NaN ELSE RatSub(a, b)

RECURSIVE SumSeq(_)
SumSeq(s) == IF s = <<>> THEN 0 ELSE Head(s) + SumSeq(Tail(s))

RECURSIVE RatSumSeq(_)
RatSumSeq(s) == IF s = <<>> THEN <<0, 1>> ELSE RatAdd(Head(s), RatSumSeq(Tail(s)))

\* np.sum over the flags of one cell
np_sum(vals) == RatSumSeq(vals)

\* np.sum passed where np.mean is meant
np_mean_as_sum(vals) == RatSumSeq(vals)

\* np.mean over the DIFF values of one cell
np_mean(vals) ==
    LET t == RatSumSeq(vals) IN Rat(t[1], t[2] * Len(vals))

Column(df, c) == [i \in 1..Len(df) |-> df[i][c]]

(***************************************************************************)
(* The input space: the shots a season file may hold.                      *)
(***************************************************************************)
Subjects == {<<"PLAYER_NAME", "Pascal Siakam">>, <<"TEAM_NAME", "Boston Celtics">>}

\* zone labels in the order pandas sorts them
ZoneBasics == <<"Backcourt", "In The Paint (Non-RA)", "Restricted Area">>
ZoneAreas == <<"Back Court(BC)", "Center(C)", "Left Side(L)">>

\* LOC_X, LOC_Y and the zone pair of the place: two places of two zones
\* inside one hexagon, a place in another hexagon, and a backcourt heave
\* beyond the extent of the grid
Places ==
    <<[x |-> 0, y |-> 38, basic |-> "Restricted Area", area |-> "Center(C)"],
      [x |-> 0, y |-> 42, basic |-> "In The Paint (Non-RA)", area |-> "Center(C)"],
      [x |-> -60, y |-> 100, basic |-> "In The Paint (Non-RA)", area |-> "Left Side(L)"],
      [x |-> 0, y |-> 600, basic |-> "Backcourt", area |-> "Back Court(BC)"]>>

Pos(seq, v) == CHOOSE i \in 1..Len(seq) : seq[i] = v

PlayerSeq == <<<<"Pascal Siakam", "Toronto Raptors">>, <<"Jayson Tatum", "Boston Celtics">>>>

Shot(player, made, place) ==
    [PLAYER_NAME |-> player[1], TEAM_NAME |-> player[2],
     SHOT_ZONE_BASIC |-> place.basic, SHOT_ZONE_AREA |-> place.area,
     SHOT_MADE_FLAG |-> made, SHOT_ATTEMPTED_FLAG |-> 1,
     LOC_X |-> place.x, LOC_Y |-> place.y]

\* the rows of the pool, numbered 0 .. PoolSize - 1
PoolSize == Len(PlayerSeq) * 2 * Len(Places)

PoolShot(k) ==
    Shot(PlayerSeq[(k % Len(PlayerSeq)) + 1],
         (k \div Len(PlayerSeq)) % 2,
         Places[(k \div (2 * Len(PlayerSeq))) + 1])

\* one row order per multiset of shots
SeasonFiles ==
    UNION {{[i \in 1..n |-> PoolShot(f[i])] :
              f \in {g \in [1..n -> 0..(PoolSize - 1)] :
                        \A i \in 1..n, j \in 1..n : i < j => g[i] <= g[j]}} :
           n \in 0..MaxShots}

(***************************************************************************)
(* pandas: groupby(...).agg(...), merge(..., how='left').                  *)
(***************************************************************************)
ZoneKey(row) == <<Pos(ZoneBasics, row.SHOT_ZONE_BASIC), Pos(ZoneAreas, row.SHOT_ZONE_AREA)>>

KeyLess(a, b) == a[1] < b[1] \/ (a[1] = b[1] /\ a[2] < b[2])

RECURSIVE SortKeys(_)
SortKeys(S) ==
    IF S = {} THEN <<>>
    ELSE LET m == CHOOSE a \in S : \A b \in S \ {a} : KeyLess(a, b)
         IN  <<m>> \o SortKeys(S \ {m})

\* df.groupby(['SHOT_ZONE_BASIC', 'SHOT_ZONE_AREA'], as_index=False)
\*   .agg(FGA=(ATTEMPTED, 'sum'), FGM=(MADE, 'sum'), FG_PCT=(MADE, 'mean'))
GroupAgg(df) ==
    LET keys == SortKeys({ZoneKey(df[i]) : i \in 1..Len(df)})
        grp(k) == SelectSeq(df, LAMBDA r : ZoneKey(r) = k)
    IN  [j \in 1..Len(keys) |->
            LET g == grp(keys[j])
                made == SumSeq(Column(g, "SHOT_MADE_FLAG"))
            IN  [SHOT_ZONE_BASIC |-> ZoneBasics[keys[j][1]],
                 SHOT_ZONE_AREA |-> ZoneAreas[keys[j][2]],
                 FGA |-> SumSeq(Column(g, "SHOT_ATTEMPTED_FLAG")),
                 FGM |-> made,
                 FG_PCT |-> Rat(made, Len(g))]]

\* the join made on the area label alone
SameZoneAreaOnly(a, b) == a.SHOT_ZONE_AREA = b.SHOT_ZONE_AREA

SameZone(a, b) ==
    a.SHOT_ZONE_BASIC = b.SHOT_ZONE_BASIC /\ a.SHOT_ZONE_AREA = b.SHOT_ZONE_AREA

\* pd.merge(left, right, on=[zone pair], how='left'): every left row, in
\* order, once per matching right row, or once with missing values
RECURSIVE MergeLeft(_, _, _)
MergeLeft(left, right, missing) ==
    IF left = <<>> THEN <<>>
    ELSE LET l == Head(left)
             hits == SelectSeq(right, LAMBDA r : SameZone(l, r))
             out == IF hits = <<>> THEN <<l @@ missing>>
                    ELSE [j \in 1..Len(hits) |-> l @@ hits[j]]
         IN  out \o MergeLeft(Tail(left), right, missing)

\* suffixes=('', '_league_avg') on the columns both frames have
LeagueSuffix(r) ==
    [SHOT_ZONE_BASIC |-> r.SHOT_ZONE_BASIC, SHOT_ZONE_AREA |-> r.SHOT_ZONE_AREA,
     FGA_league_avg |-> r.FGA, FGM_league_avg |-> r.FGM,
     FG_PCT_league_avg |-> r.FG_PCT]

MissingLeague ==
    [FGA_league_avg |-> NaN, FGM_league_avg |-> NaN, FG_PCT_league_avg |-> NaN]

MissingAvg ==
    [FGA |-> NaN, FGM |-> NaN, FG_PCT |-> NaN, FGA_league_avg |-> NaN,
     FGM_league_avg |-> NaN, FG_PCT_league_avg |-> NaN, DIFF |-> NaN]

(***************************************************************************)
(* matplotlib: hexbin(x, y, C, reduce_C_function, extent, gridsize).       *)
(* extent = (-250, 250, 422.5, -47.5).  With u = x + 250 and the padding   *)
(* p = 1e-9 * (xmax - xmin) = 5e-7 the scaled coordinates are              *)
(*     x' = nx (u + p) / (500 + 2 p),   y' = (845 - 2 y) ny / 940.         *)
(* 2 x' >= k holds iff nx u > 250 k, or nx u = 250 k and k <= nx, which    *)
(* gives floor and round without leaving the integers.  The padding moves  *)
(* x' by less than 4e-8; at gridsize 35 the two squared distances of a     *)
(* point with integer coordinates differ by at least 1/4700, so they are   *)
(* compared without it.                                                    *)
(***************************************************************************)
hexagons == 35

\* ny = int(nx / math.sqrt(3))
GridNy(nx) == CHOOSE k \in 0..nx : 3 * k * k <= nx * nx /\ 3 * (k + 1) * (k + 1) > nx * nx

\* np.round of h / 2, where exact says that h / 2 is the exact value
RoundHalf(h, exact) ==
    IF h % 2 = 0 THEN h \div 2
    ELSE IF exact
         THEN (IF ((h + 1) \div 2) % 2 = 0 THEN (h + 1) \div 2 ELSE (h - 1) \div 2)
         ELSE (h + 1) \div 2

\* the index of the hexagon of (x, y) in the flattened accumulator of
\* (nx + 1) * (ny + 1) + nx * ny hexagons, or -1 when the nearest hexagon is
\* not one of the grid
HexLattice(x, y, nx, ny) ==
    LET u == x + 250
        q == (nx * u) \div 250
        r == (nx * u) % 250
        hx == IF r = 0 /\ q > nx THEN q - 1 ELSE q
        ix1 == RoundHalf(hx, r = 0 /\ q = nx)
        ix2 == hx \div 2
        yn == (845 - 2 * y) * ny
        hy == (2 * yn) \div 940
        iy1 == RoundHalf(hy, (2 * yn) % 940 = 0)
        iy2 == hy \div 2
        g == GCD(nx, 500)
        a == (nx \div g) * u
        b == 500 \div g
        g2 == GCD(ny, 940)
        c == (845 - 2 * y) * (ny \div g2)
        d == 940 \div g2
        sq(v) == v * v
        d1 == sq(2 * d * (a - b * ix1)) + 3 * sq(2 * b * (c - d * iy1))
        d2 == sq(2 * d * (a - b * ix2) - b * d) + 3 * sq(2 * b * (c - d * iy2) - b * d)
        nx1 == nx + 1
        ny1 == ny + 1
    IN  IF d1 < d2
        THEN (IF 0 <= ix1 /\ ix1 < nx1 /\ 0 <= iy1 /\ iy1 < ny1
              THEN ix1 * ny1 + iy1 ELSE -1)
        ELSE (IF 0 <= ix2 /\ ix2 < nx /\ 0 <= iy2 /\ iy2 < ny
              THEN nx1 * ny1 + ix2 * ny + iy2 ELSE -1)

\* ny is computed once for the grid
HexIndex(x, y, nx) ==
    CHOOSE k \in {HexLattice(x, y, nx, ny) : ny \in {GridNy(nx)}} : TRUE

\* get_offsets(): the centre (x, y) of hexagon k as <<nx x, 2 ny y>>, the
\* padding of 5e-7 left out
HexOffset(k, nx, ny) ==
    LET n1 == (nx + 1) * (ny + 1)
    IN  IF k < n1
        THEN <<500 * (k \div (ny + 1)) - 250 * nx,
               845 * ny - 940 * (k % (ny + 1))>>
        ELSE <<500 * ((k - n1) \div ny) + 250 - 250 * nx,
               845 * ny - 940 * ((k - n1) % ny) - 470>>

HexCentre(k, nx) ==
    CHOOSE c \in {HexOffset(k, nx, ny) : ny \in {GridNy(nx)}} : TRUE

RECURSIVE SortInts(_)
SortInts(S) ==
    IF S = {} THEN <<>>
    ELSE LET m == CHOOSE a \in S : \A b \in S : a <= b
         IN  <<m>> \o SortInts(S \ {m})

\* the hexagon of every point, -1 for a point that delete_masked_points
\* removes (its C is missing) or that lies off the grid
HexCells(x, y, C, gridsize) ==
    [i \in 1..Len(C) |->
        IF C[i] = NaN THEN -1 ELSE HexIndex(x[i], y[i], gridsize)]

\* lattice[ix, iy] = [C[i]]: the value is stored, not appended
RECURSIVE CellValsStored(_, _, _)
CellValsStored(C, cells, k) ==
    IF C = <<>> THEN <<>>
    ELSE LET rest == CellValsStored(Tail(C), Tail(cells), k)
         IN  IF rest # <<>> THEN rest
             ELSE IF Head(cells) = k THEN <<Head(C)>> ELSE <<>>

\* lattice[ix, iy].append(C[i]) over the points in order: the values
\* accumulated in hexagon k
RECURSIVE CellVals(_, _, _)
CellVals(C, cells, k) ==
    IF C = <<>> THEN <<>>
    ELSE (IF Head(cells) = k THEN <<Head(C)>> ELSE <<>>) \o
         CellVals(Tail(C), Tail(cells), k)

\* mincnt is left at its default: a hexagon is kept when len(vals) > 0
MinCnt == 0

\* reduce_C_function applied to the values of one hexagon
Reduce(reduce_C_function, vals) ==
    IF reduce_C_function = "np.sum" THEN np_sum(vals) ELSE np_mean(vals)

\* the hexagons whose accumulated value is kept, in the order of the
\* flattened accumulator, with their reduced values and their centres
HexAccum(C, cells, reduce_C_function, gridsize) ==
    LET good == SortInts({k \in {cells[i] : i \in 1..Len(C)} :
                             k >= 0 /\ Len(CellVals(C, cells, k)) > MinCnt})
    IN  [array |-> [j \in 1..Len(good) |->
                       Reduce(reduce_C_function, CellVals(C, cells, good[j]))],
         offsets |-> [j \in 1..Len(good) |-> HexCentre(good[j], gridsize)]]

\* the hexagon of every point is computed once
hexbin(x, y, C, reduce_C_function, gridsize) ==
    CHOOSE h \in {HexAccum(C, cells, reduce_C_function, gridsize) :
                    cells \in {HexCells(x, y, C, gridsize)}} : TRUE

(***************************************************************************)
(* pandas: an empty DataFrame, df[name] = value, rank(pct=True), apply.    *)
(* A frame is its index length n and its columns.                          *)
(***************************************************************************)
EmptyFrame == [n |-> 0, cols |-> <<>>]

\* df[name] = value with a list or an array raises ValueError when its
\* length is not that of the index, unless the index is still empty
SetItemFails(df, value) ==
    Len(value) # df.n /\ ~(df.n = 0 /\ Len(value) > 0)

SetItem(df, name, value) ==
    IF df.n = 0 /\ Len(value) > 0
    THEN [n |-> Len(value),
          cols |-> (name :> value) @@
                   [c \in DOMAIN df.cols |-> [i \in 1..Len(value) |-> NaN]]]
    ELSE [n |-> df.n, cols |-> (name :> value) @@ df.cols]

\* df[name] = None: the scalar is repeated along the index
SetItemNone(df, name) ==
    [n |-> df.n, cols |-> (name :> [i \in 1..df.n |-> NaN]) @@ df.cols]

\* rank(pct=True, method='min'): the ties get their lowest rank
RankPctMin(col) ==
    LET valid == {i \in 1..Len(col) : col[i] # NaN}
        less(i) == Cardinality({j \in valid : RatLess(col[j], col[i])})
    IN  [i \in 1..Len(col) |->
            IF i \in valid THEN Rat(less(i) + 1, Cardinality(valid)) ELSE NaN]

\* Series.rank(pct=True): average rank of the ties over the number of values
RankPct(col) ==
    LET valid == {i \in 1..Len(col) : col[i] # NaN}
        less(i) == Cardinality({j \in valid : RatLess(col[j], col[i])})
        same(i) == Cardinality({j \in valid : col[j] = col[i]})
    IN  [i \in 1..Len(col) |->
            IF i \in valid
            THEN Rat(2 * less(i) + same(i) + 1, 2 * Cardinality(valid))
            ELSE NaN]

\* the thresholds compared with < where <= is meant
sizing_strict(pct) ==
    IF pct # NaN /\ RatLess(pct, <<2, 5>>) THEN 2
    ELSE IF pct # NaN /\ RatLess(pct, <<3, 4>>) THEN 40
    ELSE IF pct # NaN /\ RatLess(pct, <<9, 10>>) THEN 100
    ELSE 200

\* lambda pct: 2 if pct <= 0.4 else (40 if pct <= 0.75 else (100 if pct <= 0.90 else 200))
\* pct is the double nearest to rank / n, and so are the literals to 2/5,
\* 3/4 and 9/10: the comparisons agree with those of the exact fractions
sizing(pct) ==
    IF pct # NaN /\ RatLeq(pct, <<2, 5>>) THEN 2
    ELSE IF pct # NaN /\ RatLeq(pct, <<3, 4>>) THEN 40
    ELSE IF pct # NaN /\ RatLeq(pct, <<9, 10>>) THEN 100
    ELSE 200

(***************************************************************************)
(* pyplot: the open figures; a figure is the sequence of the artists added *)
(* to its axes.                                                            *)
(***************************************************************************)
\* plt.gca() makes a figure when none is open
AddArtist(fs, artist) ==
    IF fs = <<>> THEN <<<<artist>>>>
    ELSE [fs EXCEPT ![Len(fs)] = Append(@, artist)]

\* plt.close() left out
CloseNothing(fs) == fs

\* plt.close() closes the current figure
Close(fs) == IF fs = <<>> THEN <<>> ELSE SubSeq(fs, 1, Len(fs) - 1)

\* Normalize(vmin=-0.10, vmax=0.10) followed by the colour map, which paints
\* everything below 0 like 0 and everything above 1 like 1
Colour(diff) ==
    IF diff = NaN THEN NaN
    ELSE LET v == Rat((diff[1] * 10 + diff[2]) * 5, diff[2] * 10)
         IN  IF RatLess(v, <<0, 1>>) THEN <<0, 1>>
             ELSE IF RatLess(<<1, 1>>, v) THEN <<1, 1>> ELSE v

\* default zorder of a collection, a patch and a text
Zorder(artist) == IF artist.kind = "text" THEN 3 ELSE 1

\* Axes.draw: the artists sorted by zorder, the sort being stable
DrawOrder(artists) ==
    SelectSeq(artists, LAMBDA a : Zorder(a) = 1) \o
    SelectSeq(artists, LAMBDA a : Zorder(a) = 3)

\* draw_court: court_elements, with the outer lines appended when asked for
court_elements(outer_lines) ==
    <<"hoop", "backboard", "outer_box", "top_free_throw", "bottom_free_throw",
      "restricted", "corner_three_a", "corner_three_b", "three_arc">> \o
    (IF outer_lines THEN <<"outer_lines">> ELSE <<>>)

\* the patch put under the artists the axes already hold
add_patch_below(ax, element) == <<[kind |-> "patch", name |-> element]>> \o ax

\* ax.add_patch(element)
add_patch(ax, element) == Append(ax, [kind |-> "patch", name |-> element])

\* for element in court_elements: ax.add_patch(element)
RECURSIVE AddPatches(_, _)
AddPatches(ax, elements) ==
    IF elements = <<>> THEN ax
    ELSE AddPatches(add_patch(ax, Head(elements)), Tail(elements))

draw_court(fs, outer_lines) ==
    LET cur == IF fs = <<>> THEN <<<<>>>> ELSE fs
    IN  [cur EXCEPT ![Len(cur)] = AddPatches(@, court_elements(outer_lines))]

(***************************************************************************)
(* create_shot_chart, one action per statement group.                      *)
(***************************************************************************)
Unbound == <<>>

Locals == <<league_avg, target_df, target_avg, target_shots_hex,
            target_diff_hex, my_df>>

Args == <<season_df, target_column, target_column_name>>

\* the league average taken over the shots of everybody but the subject
LeagueAvgOfOthers ==
    /\ pc = "league_avg"
    /\ league_avg' = GroupAgg(SelectSeq(season_df,
                          LAMBDA r : r[target_column] # target_column_name))
    /\ pc' = "target_df"
    /\ UNCHANGED <<Args, target_df, target_avg, target_shots_hex,
                   target_diff_hex, my_df, figs, shown, first_df, again>>

\* league_avg = season_df.groupby(...).agg(...)
LeagueAvg ==
    /\ pc = "league_avg"
    /\ league_avg' = GroupAgg(season_df)
    /\ pc' = "target_df"
    /\ UNCHANGED <<Args, target_df, target_avg, target_shots_hex,
                   target_diff_hex, my_df, figs, shown, first_df, again>>

\* the filter applied to the caller's frame itself
FilterTargetInPlace ==
    /\ pc = "target_df"
    /\ target_df' = SelectSeq(season_df,
                              LAMBDA r : r[target_column] = target_column_name)
    /\ season_df' = target_df'
    /\ target_avg' = GroupAgg(target_df')
    /\ pc' = "merge_avg"
    /\ UNCHANGED <<target_column, target_column_name, league_avg,
                   target_shots_hex, target_diff_hex, my_df,
                   figs, shown, first_df, again>>

\* target_df = season_df.loc[season_df[target_column] == target_column_name]
\* target_avg = target_df.groupby(...).agg(...)
FilterTarget ==
    /\ pc = "target_df"
    /\ target_df' = SelectSeq(season_df,
                              LAMBDA r : r[target_column] = target_column_name)
    /\ target_avg' = GroupAgg(target_df')
    /\ pc' = "merge_avg"
    /\ UNCHANGED <<Args, league_avg, target_shots_hex, target_diff_hex, my_df,
                   figs, shown, first_df, again>>

\* the league's rate minus the subject's
WithDiffReversed(df) ==
    [i \in 1..Len(df) |->
        df[i] @@ [DIFF |-> FloatSub(df[i].FG_PCT_league_avg, df[i].FG_PCT)]]

\* target_avg['DIFF'] = target_avg['FG_PCT'] - target_avg['FG_PCT_league_avg']
WithDiff(df) ==
    [i \in 1..Len(df) |->
        df[i] @@ [DIFF |-> FloatSub(df[i].FG_PCT, df[i].FG_PCT_league_avg)]]

\* target_avg = pd.merge(target_avg, league_avg, ..., suffixes=('', '_league_avg'))
\* followed by the DIFF column
MergeAvg ==
    /\ pc = "merge_avg"
    /\ target_avg' = WithDiff(MergeLeft(target_avg,
                                        [i \in 1..Len(league_avg) |->
                                            LeagueSuffix(league_avg[i])],
                                        MissingLeague))
    /\ pc' = "merge_shots"
    /\ UNCHANGED <<Args, league_avg, target_df, target_shots_hex,
                   target_diff_hex, my_df, figs, shown, first_df, again>>

\* target_df = pd.merge(target_df, target_avg, on=[zone pair], how='left')
MergeShots ==
    /\ pc = "merge_shots"
    /\ target_df' = MergeLeft(target_df, target_avg, MissingAvg)
    /\ pc' = "hexbin_shots"
    /\ UNCHANGED <<Args, league_avg, target_avg, target_shots_hex,
                   target_diff_hex, my_df, figs, shown, first_df, again>>

\* target_shots_hex = plt.hexbin(..., C=SHOT_ATTEMPTED_FLAG, np.sum, ...)
\* plt.close()
HexbinShots ==
    /\ pc = "hexbin_shots"
    /\ target_shots_hex' =
          hexbin(Column(target_df, "LOC_X"), Column(target_df, "LOC_Y"),
                 [i \in 1..Len(target_df) |-> Float(target_df[i].SHOT_ATTEMPTED_FLAG)],
                 "np.sum", hexagons)
    /\ figs' = Close(AddArtist(figs, [kind |-> "hexbin"]))
    /\ pc' = "hexbin_diff"
    /\ UNCHANGED <<Args, league_avg, target_df, target_avg, target_diff_hex,
                   my_df, shown, first_df, again>>

\* target_diff_hex = plt.hexbin(..., C=DIFF, np.mean, ...); plt.close()
HexbinDiff ==
    /\ pc = "hexbin_diff"
    /\ target_diff_hex' =
          hexbin(Column(target_df, "LOC_X"), Column(target_df, "LOC_Y"),
                 Column(target_df, "DIFF"), "np.mean", hexagons)
    /\ figs' = Close(AddArtist(figs, [kind |-> "hexbin"]))
    /\ pc' = "my_df"
    /\ UNCHANGED <<Args, league_avg, target_df, target_avg, target_shots_hex,
                   my_df, shown, first_df, again>>

\* shots_freq_by_hex, shots_diff, shots_loc, the loop that fills x and y,
\* my_df = pd.DataFrame() and its four columns
BuildFrame ==
    /\ pc = "my_df"
    /\ LET shots_freq_by_hex == target_shots_hex.array
           shots_diff == target_diff_hex.array
           shots_loc == target_shots_hex.offsets
           looped == Len(shots_diff) > 0
           x == [i \in 1..Len(shots_loc) |-> shots_loc[i][1]]
           y == [i \in 1..Len(shots_loc) |-> shots_loc[i][2]]
           df1 == IF looped THEN SetItem(EmptyFrame, "loc_x", x)
                  ELSE SetItemNone(EmptyFrame, "loc_x")
           df2 == IF looped THEN SetItem(df1, "loc_y", y)
                  ELSE SetItemNone(df1, "loc_y")
           df3 == SetItem(df2, "difference", shots_diff)
           df4 == SetItem(df3, "freq", shots_freq_by_hex)
       IN  IF (looped /\ SetItemFails(df1, y))
              \/ SetItemFails(df2, shots_diff)
              \/ SetItemFails(df3, shots_freq_by_hex)
           THEN /\ pc' = "error"
                /\ my_df' = EmptyFrame
           ELSE /\ pc' = "percentile"
                /\ my_df' = df4
    /\ UNCHANGED <<Args, league_avg, target_df, target_avg, target_shots_hex,
                   target_diff_hex, figs, shown, first_df, again>>

\* my_df['percentile'] = my_df['freq'].rank(pct=True)
Percentile ==
    /\ pc = "percentile"
    /\ my_df' = SetItem(my_df, "percentile", RankPct(my_df.cols["freq"]))
    /\ pc' = "sizing"
    /\ UNCHANGED <<Args, league_avg, target_df, target_avg, target_shots_hex,
                   target_diff_hex, figs, shown, first_df, again>>

\* my_df['sizing'] = my_df['percentile'].apply(lambda pct: ...)
\* LOGGER.info('Final Data for Plot Created')
Sizing ==
    /\ pc = "sizing"
    /\ my_df' = SetItem(my_df, "sizing",
                        [i \in 1..my_df.n |-> sizing(my_df.cols["percentile"][i])])
    /\ first_df' = IF again THEN first_df ELSE <<my_df'>>
    /\ pc' = "scatter"
    /\ UNCHANGED <<Args, league_avg, target_df, target_avg, target_shots_hex,
                   target_diff_hex, figs, shown, again>>

\* plt.figure(...); plt.scatter(loc_x, loc_y, c=difference, s=sizing, ...)
Scatter ==
    /\ pc = "scatter"
    /\ figs' = AddArtist(Append(figs, <<>>),
                  [kind |-> "scatter",
                   offsets |-> [i \in 1..my_df.n |->
                                  <<my_df.cols["loc_x"][i], my_df.cols["loc_y"][i]>>],
                   c |-> [i \in 1..my_df.n |-> Colour(my_df.cols["difference"][i])],
                   s |-> my_df.cols["sizing"]])
    /\ pc' = "draw_court"
    /\ UNCHANGED <<Args, Locals, shown, first_df, again>>

\* draw_court(outer_lines=True, color='blanchedalmond'); xlim, ylim, axis off
DrawCourt ==
    /\ pc = "draw_court"
    /\ figs' = draw_court(figs, TRUE)
    /\ pc' = "text"
    /\ UNCHANGED <<Args, Locals, shown, first_df, again>>

\* the three plt.text calls
Text ==
    /\ pc = "text"
    /\ figs' = AddArtist(AddArtist(AddArtist(figs,
                  [kind |-> "text", s |-> "target_column_name"]),
                  [kind |-> "text", s |-> "season_year"]),
                  [kind |-> "text", s |-> "@safee.c"])
    /\ pc' = "show"
    /\ UNCHANGED <<Args, Locals, shown, first_df, again>>

\* plt.show(): every open figure is drawn; a window backend destroys the
\* figures when their windows are closed, a file backend keeps them open
Show ==
    /\ pc = "show"
    /\ shown' = [i \in 1..Len(figs) |-> DrawOrder(figs[i])]
    /\ \/ figs' = <<>>
       \/ figs' = figs
    /\ pc' = "done"
    /\ UNCHANGED <<Args, Locals, first_df, again>>

\* a further create_shot_chart(...) call of the same process on the same
\* arguments: its locals start unbound
CallAgain ==
    /\ pc = "done"
    /\ pc' = "league_avg"
    /\ again' = TRUE
    /\ league_avg' = Unbound
    /\ target_df' = Unbound
    /\ target_avg' = Unbound
    /\ target_shots_hex' = Unbound
    /\ target_diff_hex' = Unbound
    /\ my_df' = Unbound
    /\ UNCHANGED <<Args, figs, shown, first_df>>

InitCall ==
    /\ pc = "league_avg"
    /\ league_avg = Unbound
    /\ target_df = Unbound
    /\ target_avg = Unbound
    /\ target_shots_hex = Unbound
    /\ target_diff_hex = Unbound
    /\ my_df = Unbound
    /\ figs = <<>>
    /\ shown = <<>>
    /\ first_df = <<>>
    /\ again = FALSE

\* the call of the main block on a season file and a subject
Init ==
    /\ season_df \in SeasonFiles
    /\ \E subj \in Subjects :
          /\ target_column = subj[1]
          /\ target_column_name = subj[2]
    /\ InitCall

\* season files for the ranking: the j-th of n hexagons holds f[j] made
\* shots of the subject
RankPlace(j) ==
    [x |-> 60 * j - 240, y |-> 50 * j,
     basic |-> "In The Paint (Non-RA)", area |-> "Center(C)"]

RECURSIVE Repeat(_, _)
Repeat(v, k) == IF k = 0 THEN <<>> ELSE <<v>> \o Repeat(v, k - 1)

RECURSIVE RankFile(_, _)
RankFile(f, j) ==
    IF j > Len(f) THEN <<>>
    ELSE Repeat(Shot(PlayerSeq[1], 1, RankPlace(j)), f[j]) \o RankFile(f, j + 1)

RankInit ==
    /\ \E n \in 0..MaxCells : \E f \in [1..n -> 1..MaxFreq] :
          season_df = RankFile(f, 1)
    /\ target_column = "PLAYER_NAME"
    /\ target_column_name = PlayerSeq[1][1]
    /\ InitCall

Step ==
    \/ LeagueAvg
    \/ FilterTarget
    \/ MergeAvg
    \/ MergeShots
    \/ HexbinShots
    \/ HexbinDiff
    \/ BuildFrame
    \/ Percentile
    \/ Sizing
    \/ Scatter
    \/ DrawCourt
    \/ Text
    \/ Show

Next == Step \/ CallAgain

Spec == Init /\ [][Next]_vars

RankSpec == RankInit /\ [][Step]_vars

(***************************************************************************)
(* Properties.  What they compare the program's values with is computed    *)
(* from the arguments alone, by counting.                                  *)
(***************************************************************************)
PcSeq ==
    <<"league_avg", "target_df", "merge_avg", "merge_shots", "hexbin_shots",
      "hexbin_diff", "my_df", "percentile", "sizing", "scatter", "draw_court",
      "text", "show", "done">>

\* the statement group named p has been executed by the current call
Past(p) == pc # "error" /\ Pos(PcSeq, pc) > Pos(PcSeq, p)

\* the shots of the subject, as positions in season_df
TargetIdx == {i \in 1..Len(season_df) : season_df[i][target_column] = target_column_name}

TargetShots == SelectSeq(season_df, LAMBDA r : r[target_column] = target_column_name)

ZonePair(r) == <<r.SHOT_ZONE_BASIC, r.SHOT_ZONE_AREA>>

Made(I) == Cardinality({i \in I : season_df[i].SHOT_MADE_FLAG = 1})

Attempted(I) == Cardinality({i \in I : season_df[i].SHOT_ATTEMPTED_FLAG = 1})

\* make-rate of the subject minus make-rate of the league in zone pair z
ZoneDiff(z) ==
    LET L == {i \in 1..Len(season_df) : ZonePair(season_df[i]) = z}
        T == L \cap TargetIdx
    IN  Rat(Made(T) * Attempted(L) - Made(L) * Attempted(T),
            Attempted(T) * Attempted(L))

OnGrid(r) == HexIndex(r.LOC_X, r.LOC_Y, hexagons) >= 0

InExtent(r) ==
    /\ -250 <= r.LOC_X /\ r.LOC_X <= 250
    /\ -95 <= 2 * r.LOC_Y /\ 2 * r.LOC_Y <= 845

\* the shots of the subject that fall in hexagon k
InCell(k) == {i \in TargetIdx : HexIndex(season_df[i].LOC_X, season_df[i].LOC_Y, hexagons) = k}

Occupied == {k \in {HexIndex(season_df[i].LOC_X, season_df[i].LOC_Y, hexagons) : i \in TargetIdx} :
                k >= 0}

Col(c) == my_df.cols[c]

\* C1 as stated: once the frame is built, the attempt counts of its cells
\* add up to the attempts of the subject, less the attempts whose
\* differential is missing, wherever the shots lie
C1_SumEqualsTargetAttempts ==
    Past("my_df") =>
        RatSumSeq(Col("freq")) =
            Float(Attempted(TargetIdx)
                  - Len(SelectSeq(target_df, LAMBDA r : r.DIFF = NaN)))

\* C1 amended: the attempt counts of the cells add up to the attempts of
\* the subject whose nearest hexagon is one of the grid; every attempt
\* inside the extent is among them, an attempt far beyond it is dropped
C1_SumEqualsAttemptsOnGrid ==
    Past("my_df") =>
        \A binned \in {{i \in TargetIdx : OnGrid(season_df[i])}} :
            /\ RatSumSeq(Col("freq")) = Float(Attempted(binned))
            /\ \A i \in TargetIdx : InExtent(season_df[i]) => i \in binned

C1_Witness ==
    /\ Past("my_df")
    /\ \E i \in TargetIdx : ~OnGrid(season_df[i])
    /\ \E k \in Occupied : Cardinality(InCell(k)) >= 2

\* C2: a subject without a shot makes no step of the call fail; the frame
\* has no row in any of its columns and the figure shown holds the court
\* and a scatter without a marker
C2_EmptySubjectCompletes ==
    TargetIdx = {} =>
        /\ pc # "error"
        /\ Past("my_df") =>
              /\ my_df.n = 0
              /\ \A c \in DOMAIN my_df.cols : my_df.cols[c] = <<>>
              /\ {"loc_x", "loc_y", "difference", "freq"} \subseteq DOMAIN my_df.cols
        /\ Past("sizing") => {"percentile", "sizing"} \subseteq DOMAIN my_df.cols
        /\ pc = "done" =>
              /\ Len(shown) = 1
              /\ \E i \in 1..Len(shown[1]) :
                    shown[1][i].kind = "scatter" /\ shown[1][i].offsets = <<>>
              /\ [i \in 1..Len(court_elements(TRUE)) |->
                     [kind |-> "patch", name |-> court_elements(TRUE)[i]]]
                 = SelectSeq(shown[1], LAMBDA a : a.kind = "patch")

C2_Witness == TargetIdx = {} /\ pc = "done" /\ Len(season_df) > 0

Tier(v) == Pos(<<2, 40, 100, 200>>, v)

\* C3: the size of a cell is decided by its percentile alone: up to 0.40
\* the first tier, up to 0.75 the second, up to 0.90 the third, above it
\* the fourth, a boundary belonging to the lower tier, and a higher
\* percentile never has a lower tier
C3_FourTiers ==
    Past("sizing") =>
        \A i \in 1..my_df.n :
            LET pct == Col("percentile")[i]
                t == Tier(Col("sizing")[i])
            IN  /\ Col("sizing")[i] \in {2, 40, 100, 200}
                /\ t = 1 <=> 5 * pct[1] <= 2 * pct[2]
                /\ t = 2 <=> (5 * pct[1] > 2 * pct[2] /\ 4 * pct[1] <= 3 * pct[2])
                /\ t = 3 <=> (4 * pct[1] > 3 * pct[2] /\ 10 * pct[1] <= 9 * pct[2])
                /\ t = 4 <=> 10 * pct[1] > 9 * pct[2]
                /\ \A j \in 1..my_df.n :
                      RatLess(pct, Col("percentile")[j])
                          => t <= Tier(Col("sizing")[j])

C3_Witness ==
    /\ Past("sizing")
    /\ \E i \in 1..my_df.n : Col("percentile")[i] = <<2, 5>> /\ Col("sizing")[i] = 2
    /\ \E i \in 1..my_df.n : Col("percentile")[i] = <<9, 10>> /\ Col("sizing")[i] = 100

\* C4: more attempts never mean a lower percentile, equal attempts mean
\* the same percentile, namely the mean of the tied ranks over the number
\* of cells, and every percentile lies between 0 and 1
C4_PercentileMonotone ==
    Past("percentile") =>
        \A i \in 1..my_df.n :
            LET pct == Col("percentile")[i]
                below == Cardinality({j \in 1..my_df.n :
                                         RatLess(Col("freq")[j], Col("freq")[i])})
                tied == Cardinality({j \in 1..my_df.n : Col("freq")[j] = Col("freq")[i]})
            IN  /\ 0 <= pct[1] /\ pct[1] <= pct[2]
                \* the tied ranks are below + 1 .. below + tied
                /\ pct[1] * 2 * my_df.n = (2 * below + tied + 1) * pct[2]
                /\ \A j \in 1..my_df.n :
                      /\ RatLess(Col("freq")[j], Col("freq")[i])
                            => RatLeq(Col("percentile")[j], pct)
                      /\ Col("freq")[j] = Col("freq")[i]
                            => Col("percentile")[j] = pct

C4_Witness ==
    /\ Past("percentile")
    /\ \E i, j, k \in 1..my_df.n :
          /\ i # j
          /\ Col("freq")[i] = Col("freq")[j]
          /\ RatLess(Col("freq")[k], Col("freq")[i])
          /\ RatLess(Col("percentile")[k], Col("percentile")[i])

\* C5: the differential table has one row for each zone pair the subject
\* shot from and none for any other, and its DIFF is the subject's
\* make-rate there minus the league's
C5_DifferentialTable ==
    Past("merge_avg") =>
        /\ {ZonePair(target_avg[j]) : j \in 1..Len(target_avg)}
              = {ZonePair(season_df[i]) : i \in TargetIdx}
        /\ \A i, j \in 1..Len(target_avg) :
              ZonePair(target_avg[i]) = ZonePair(target_avg[j]) => i = j
        /\ \A j \in 1..Len(target_avg) :
              target_avg[j].DIFF = ZoneDiff(ZonePair(target_avg[j]))

C5_Witness ==
    /\ Past("merge_avg")
    /\ \E j \in 1..Len(target_avg) : target_avg[j].DIFF = <<1, 2>>
    /\ \E i \in 1..Len(season_df) :
          \A j \in 1..Len(target_avg) : ZonePair(season_df[i]) # ZonePair(target_avg[j])

\* C6: a further call on the same arguments builds the frame the first
\* call built
C6_SecondCallSameFrame ==
    (again /\ Past("sizing")) => first_df = <<my_df>>

C6_Witness ==
    /\ again /\ pc = "scatter" /\ my_df.n >= 2
    /\ \E i \in 1..my_df.n : Col("difference")[i] # <<0, 1>>

Before(fig, kindA, kindB) ==
    \A i, j \in 1..Len(fig) :
        (fig[i].kind = kindA /\ fig[j].kind = kindB) => i < j

HasMarkers(fig) ==
    \E i \in 1..Len(fig) : fig[i].kind = "scatter" /\ fig[i].offsets # <<>>

C8_CellAggregates ==
    Past("my_df") =>
        \A cell \in {[i \in TargetIdx |->
                        HexIndex(season_df[i].LOC_X, season_df[i].LOC_Y, hexagons)]} :
        \A diff \in {[i \in TargetIdx |-> ZoneDiff(ZonePair(season_df[i]))]} :
            LET occupied == {k \in {cell[i] : i \in TargetIdx} : k >= 0}
                in(k) == {i \in TargetIdx : cell[i] = k}
                sum[I \in SUBSET TargetIdx] ==
                    IF I = {} THEN <<0, 1>>
                    ELSE LET i == CHOOSE j \in I : TRUE
                         IN  RatAdd(diff[i], sum[I \ {i}])
            IN  /\ my_df.n = Cardinality(occupied)
                /\ \A k \in occupied :
                      \E j \in 1..my_df.n :
                          /\ <<Col("loc_x")[j], Col("loc_y")[j]>> = HexCentre(k, hexagons)
                          /\ Col("freq")[j] = Float(Attempted(in(k)))
                          /\ Col("difference")[j] =
                                Rat(sum[in(k)][1], sum[in(k)][2] * Cardinality(in(k)))

C8_Witness ==
    /\ Past("my_df")
    /\ \E k \in Occupied :
          \E i, j \in InCell(k) :
              ZoneDiff(ZonePair(season_df[i])) # ZoneDiff(ZonePair(season_df[j]))

ShotColumns ==
    {"PLAYER_NAME", "TEAM_NAME", "SHOT_ZONE_BASIC", "SHOT_ZONE_AREA",
     "SHOT_MADE_FLAG", "SHOT_ATTEMPTED_FLAG", "LOC_X", "LOC_Y"}

\* C9: after the joins every zone pair of the subject has a league average
\* and target_df holds the subject's shots, each once and in order, each
\* with the differential of its own zone pair, none missing
C9_EveryShotHasItsDifferential ==
    /\ Past("merge_avg") =>
          \A j \in 1..Len(target_avg) : target_avg[j].FG_PCT_league_avg # NaN
    /\ Past("merge_shots") =>
          /\ Len(target_df) = Len(TargetShots)
          /\ \A i \in 1..Len(target_df) :
                /\ [c \in ShotColumns |-> target_df[i][c]] = TargetShots[i]
                /\ target_df[i].DIFF # NaN
                /\ target_df[i].DIFF = ZoneDiff(ZonePair(TargetShots[i]))

C9_Witness ==
    /\ Past("merge_shots")
    /\ Len(target_df) >= 2
    /\ \E i, j \in 1..Len(target_df) : target_df[i].DIFF # target_df[j].DIFF
    /\ Len(season_df) > Len(target_df)

\* C10: the centres and the counts of the first binning and the means of
\* the second have one length and describe the same hexagon position by
\* position, and so do the columns of the frame made of them
C10_SequencesAligned ==
    /\ pc # "error"
    /\ Past("hexbin_diff") =>
          /\ Len(target_shots_hex.offsets) = Len(target_shots_hex.array)
          /\ Len(target_diff_hex.array) = Len(target_shots_hex.array)
          /\ target_diff_hex.offsets = target_shots_hex.offsets
    /\ Past("my_df") =>
          /\ my_df.n = Len(target_shots_hex.offsets)
          /\ \A i \in 1..my_df.n :
                /\ <<Col("loc_x")[i], Col("loc_y")[i]>> = target_shots_hex.offsets[i]
                /\ Col("freq")[i] = target_shots_hex.array[i]
                /\ Col("difference")[i] = target_diff_hex.array[i]

C10_Witness ==
    /\ Past("my_df")
    /\ my_df.n = 2
    /\ Col("difference")[1] # Col("difference")[2]
    /\ HexIndex(TargetShots[1].LOC_X, TargetShots[1].LOC_Y, hexagons)
          > HexIndex(TargetShots[2].LOC_X, TargetShots[2].LOC_Y, hexagons)

====
